---- MODULE Spec2Model ----
(***************************************************************************)
(* character-card-utils: the zod validators v1, entry, book, v2 and        *)
(* backfilledV2 of src/src/index.ts, and the helper functions parseToV2,   *)
(* safeParseToV2, v1ToV2, backfillV2 and backfillV2WithObsolescenceNotice. *)
(*                                                                         *)
(* A JavaScript value is a record [t |-> <type tag>, v |-> <payload>]; the *)
(* tag is what zod's getParsedType returns for the value.  An object's     *)
(* payload is a function from its own keys to values, an array's payload   *)
(* is a sequence of values.                                                *)
(***************************************************************************)
EXTENDS Integers, Sequences, FiniteSets, TLC

VARIABLES input, op, result

vars == <<input, op, result>>

----------------------------------------------------------------------------
(* JavaScript values *)

Str(s) == [t |-> "string", v |-> s]
Num(n) == [t |-> "number", v |-> n]
Bool(b) == [t |-> "boolean", v |-> b]
Arr(s) == [t |-> "array", v |-> s]
Obj(f) == [t |-> "object", v |-> f]
Undefined == [t |-> "undefined", v |-> "undefined"]
Null == [t |-> "null", v |-> "null"]
NoKeys == [k \in {} |-> Undefined]
EmptyObj == Obj(NoKeys)

(* getParsedType of zod: the type tag a validator dispatches on *)
ParsedType(x) == x.t

(* x[key] of JavaScript on an object: undefined when the key is absent *)
Get(x, key) == IF key \in DOMAIN x.v THEN x.v[key] ELSE Undefined

HasKey(x, key) == x.t = "object" /\ key \in DOMAIN x.v

(* { ...x, key: val } *)
With(x, key, val) == Obj((key :> val) @@ x.v)

(* x without the key *)
Without(x, key) == Obj([k \in (DOMAIN x.v) \ {key} |-> x.v[k]])

(* the elements of a sequence *)
Range(s) == {s[i] : i \in 1..Len(s)}

----------------------------------------------------------------------------
(* zod schemas, as data *)

ZString == [k |-> "string"]
ZNumber == [k |-> "number"]
ZBoolean == [k |-> "boolean"]
ZAny == [k |-> "any"]
ZLiteral(val) == [k |-> "literal", value |-> val]
ZArray(s) == [k |-> "array", element |-> s]
ZRecord(s) == [k |-> "record", valueType |-> s]
ZOptional(s) == [k |-> "optional", inner |-> s]
ZUnion(ss) == [k |-> "union", options |-> ss]
(* z.object: the keys in declaration order and the schema of each key *)
ZObject(ks, sh) == [k |-> "object", keys |-> ks, shape |-> sh]

(* a.merge(b): the shape { ...a.shape, ...b.shape } *)
ZMerge(a, b) ==
  ZObject(a.keys \o SelectSeq(b.keys, LAMBDA key : key \notin Range(a.keys)),
          b.shape @@ a.shape)

----------------------------------------------------------------------------
(* zod parsing.  A parse yields [ok, data, issues]: ok with the output      *)
(* value, or not ok with the list of issues in the order zod adds them.    *)
(* An issue names its code, the path of the offending value, and what was  *)
(* expected and received (the type names for invalid_type, the literal and *)
(* the offending value for invalid_literal).                               *)

OK(x) == [ok |-> TRUE, data |-> x, issues |-> <<>>]

INVALID(is) == [ok |-> FALSE, data |-> Undefined, issues |-> is]

InvalidType(path, expected, x) ==
  [code |-> "invalid_type", path |-> path,
   expected |-> Str(expected), received |-> Str(ParsedType(x))]

InvalidLiteral(path, expected, x) ==
  [code |-> "invalid_literal", path |-> path,
   expected |-> Str(expected), received |-> x]

InvalidUnion(path, x) ==
  [code |-> "invalid_union", path |-> path,
   expected |-> Undefined, received |-> x]

RECURSIVE Flatten(_)
Flatten(ss) == IF ss = <<>> THEN <<>> ELSE Head(ss) \o Flatten(Tail(ss))

RECURSIVE SeqOfSet(_)
SeqOfSet(S) ==
  IF S = {} THEN <<>>
  ELSE LET e == CHOOSE e \in S : TRUE IN <<e>> \o SeqOfSet(S \ {e})

(* the primitive schemas: z.string(), z.number(), z.boolean() *)
ParsePrimitive(s, x, path) ==
  IF ParsedType(x) = s.k THEN OK(x) ELSE INVALID(<<InvalidType(path, s.k, x)>>)

(* ParseLiteral that takes any string for the literal *)
ParseLiteral_AnyString(s, x, path) ==
  IF ParsedType(x) = "string"
  THEN OK(Str(s.value))
  ELSE INVALID(<<InvalidLiteral(path, s.value, x)>>)

(* z.literal(value): the input must be identical to the value *)
ParseLiteral(s, x, path) ==
  IF ParsedType(x) = "string" /\ x.v = s.value
  THEN OK(x)
  ELSE INVALID(<<InvalidLiteral(path, s.value, x)>>)

(* the keys an object schema keeps in its output: the schema's own keys    *)
(* whose parsed value is defined or that the input holds                   *)
KeptKeys(s, x, results) ==
  {key \in Range(s.keys) : results[key].data # Undefined \/ key \in DOMAIN x.v}

(* ObjectOutput as .passthrough() would have it: the undeclared keys of   *)
(* the input stay in the output                                            *)
ObjectOutput_Passthrough(s, x, results) ==
  Obj([key \in KeptKeys(s, x, results) |-> results[key].data] @@ x.v)

(* the output of a valid object: the parsed values of the kept keys.  Keys *)
(* of the input that the schema does not declare are stripped, which is    *)
(* what z.object does unless .passthrough() or .strict() is asked for.     *)
ObjectOutput(s, x, results) ==
  Obj([key \in KeptKeys(s, x, results) |-> results[key].data])

RECURSIVE Parse(_, _, _)
Parse(s, x, path) ==
  CASE s.k \in {"string", "number", "boolean"} -> ParsePrimitive(s, x, path)
    [] s.k = "any" -> OK(x)
    [] s.k = "literal" -> ParseLiteral(s, x, path)
    [] s.k = "optional" ->
         IF ParsedType(x) = "undefined" THEN OK(Undefined)
         ELSE Parse(s.inner, x, path)
    [] s.k = "union" ->
         LET results == [i \in 1..Len(s.options) |-> Parse(s.options[i], x, path)]
             good == {i \in 1..Len(s.options) : results[i].ok}
         IN IF good # {}
            THEN results[CHOOSE i \in good : \A j \in good : i <= j]
            ELSE INVALID(<<InvalidUnion(path, x)>>)
    [] s.k = "array" ->
         IF ParsedType(x) # "array"
         THEN INVALID(<<InvalidType(path, "array", x)>>)
         ELSE LET results == [i \in 1..Len(x.v) |->
                                Parse(s.element, x.v[i], Append(path, ToString(i - 1)))]
              IN IF \A i \in 1..Len(x.v) : results[i].ok
                 THEN OK(Arr([i \in 1..Len(x.v) |-> results[i].data]))
                 ELSE INVALID(Flatten([i \in 1..Len(x.v) |-> results[i].issues]))
    [] s.k = "record" ->
         IF ParsedType(x) # "object"
         THEN INVALID(<<InvalidType(path, "object", x)>>)
         ELSE LET results == [key \in DOMAIN x.v |->
                                Parse(s.valueType, x.v[key], Append(path, key))]
                  order == SeqOfSet(DOMAIN x.v)
              IN IF \A key \in DOMAIN x.v : results[key].ok
                 THEN OK(Obj([key \in DOMAIN x.v |-> results[key].data]))
                 ELSE INVALID(Flatten([i \in 1..Len(order) |-> results[order[i]].issues]))
    [] s.k = "object" ->
         IF ParsedType(x) # "object"
         THEN INVALID(<<InvalidType(path, "object", x)>>)
         ELSE LET results == [key \in Range(s.keys) |->
                                Parse(s.shape[key], Get(x, key), Append(path, key))]
              IN IF \A key \in Range(s.keys) : results[key].ok
                 THEN OK(ObjectOutput(s, x, results))
                 ELSE INVALID(Flatten([i \in 1..Len(s.keys) |-> results[s.keys[i]].issues]))

(* schema.safeParse(data) *)
SafeParse(s, x) ==
  LET r == Parse(s, x, <<>>)
  IN IF r.ok THEN [success |-> TRUE, data |-> r.data]
     ELSE [success |-> FALSE, error |-> r.issues]

(* schema accepts data: safeParse(data).success *)
Accepts(s, x) == Parse(s, x, <<>>).ok

----------------------------------------------------------------------------
(* the validators of the library *)

(* v1 as v1.partial() would be: no field is required *)
v1_Partial ==
  ZObject(<<"name", "description", "personality", "scenario", "first_mes", "mes_example">>,
          [name |-> ZOptional(ZString), description |-> ZOptional(ZString),
           personality |-> ZOptional(ZString), scenario |-> ZOptional(ZString),
           first_mes |-> ZOptional(ZString), mes_example |-> ZOptional(ZString)])

V1Fields == <<"name", "description", "personality", "scenario", "first_mes", "mes_example">>

v1 == ZObject(V1Fields, [key \in Range(V1Fields) |-> ZString])

entry ==
  ZObject(<<"keys", "content", "extensions", "enabled", "insertion_order",
            "case_sensitive", "name", "priority", "id", "comment", "selective",
            "secondary_keys", "constant", "position">>,
          [keys |-> ZArray(ZString),
           content |-> ZString,
           extensions |-> ZRecord(ZAny),
           enabled |-> ZBoolean,
           insertion_order |-> ZNumber,
           case_sensitive |-> ZOptional(ZBoolean),
           name |-> ZOptional(ZString),
           priority |-> ZOptional(ZNumber),
           id |-> ZOptional(ZNumber),
           comment |-> ZOptional(ZString),
           selective |-> ZOptional(ZBoolean),
           secondary_keys |-> ZOptional(ZArray(ZString)),
           constant |-> ZOptional(ZBoolean),
           position |-> ZOptional(ZUnion(<<ZLiteral("before_char"), ZLiteral("after_char")>>))])

book ==
  ZObject(<<"name", "description", "scan_depth", "token_budget",
            "recursive_scanning", "extensions", "entries">>,
          [name |-> ZOptional(ZString),
           description |-> ZOptional(ZString),
           scan_depth |-> ZOptional(ZNumber),
           token_budget |-> ZOptional(ZNumber),
           recursive_scanning |-> ZOptional(ZBoolean),
           extensions |-> ZRecord(ZAny),
           entries |-> ZArray(entry)])

V2OnlyFields == <<"creator_notes", "system_prompt", "post_history_instructions",
                  "alternate_greetings", "character_book", "tags", "creator",
                  "character_version", "extensions">>

v2Data ==
  ZMerge(v1,
         ZObject(V2OnlyFields,
                 [creator_notes |-> ZString,
                  system_prompt |-> ZString,
                  post_history_instructions |-> ZString,
                  alternate_greetings |-> ZArray(ZString),
                  character_book |-> ZOptional(book),
                  tags |-> ZArray(ZString),
                  creator |-> ZString,
                  character_version |-> ZString,
                  extensions |-> ZRecord(ZAny)]))

v2 ==
  ZObject(<<"spec", "spec_version", "data">>,
          [spec |-> ZLiteral("chara_card_v2"),
           spec_version |-> ZString,
           data |-> v2Data])

(* backfilledV2 without the merge of v2 *)
backfilledV2_V1Only == ZMerge(v1, ZObject(<<>>, NoKeys))

backfilledV2 == ZMerge(v1, v2)

----------------------------------------------------------------------------
(* the helper functions.  A call ends in Return(value) or in Throw(error). *)

Return(x) == [kind |-> "return", value |-> x, error |-> <<>>]

Throw(e) == [kind |-> "throw", value |-> Undefined, error |-> e]

(* the V2-only fields of the card v1ToV2 builds *)
V2Defaults ==
  [creator_notes |-> Str(""),
   system_prompt |-> Str(""),
   post_history_instructions |-> Str(""),
   alternate_greetings |-> Arr(<<>>),
   character_book |-> Undefined,
   tags |-> Arr(<<>>),
   creator |-> Str(""),
   character_version |-> Str(""),
   extensions |-> EmptyObj]

(* v1ToV2 with the number 2.0 for spec_version *)
v1ToV2_NumericVersion(v1Card) ==
  Obj([spec |-> Str("chara_card_v2"),
       spec_version |-> Num(2),
       data |-> Obj(V2Defaults @@ v1Card.v)])

(* v1ToV2 with ...v1Card written after the defaults *)
v1ToV2_CardLast(v1Card) ==
  Obj([spec |-> Str("chara_card_v2"),
       spec_version |-> Str("2.0"),
       data |-> Obj(v1Card.v @@ V2Defaults)])

(* v1ToV2 without the extensions default *)
v1ToV2_NoExtensions(v1Card) ==
  Obj([spec |-> Str("chara_card_v2"),
       spec_version |-> Str("2.0"),
       data |-> Obj([key \in (DOMAIN V2Defaults) \ {"extensions"} |-> V2Defaults[key]]
                    @@ v1Card.v)])

(* { spec, spec_version, data: { ...v1Card, <defaults> } }: in an object    *)
(* literal a later key overrides an earlier one of the same name           *)
v1ToV2(v1Card) ==
  Obj([spec |-> Str("chara_card_v2"),
       spec_version |-> Str("2.0"),
       data |-> Obj(V2Defaults @@ v1Card.v)])

(* parseToV2 that tries v1 before v2 *)
parseToV2_V1First(data) ==
  LET v2ParsingAttempt == SafeParse(v2, data)
      v1ParsingAttempt == SafeParse(v1, data)
  IN IF v1ParsingAttempt.success THEN Return(v1ToV2(v1ParsingAttempt.data))
     ELSE IF v2ParsingAttempt.success THEN Return(v2ParsingAttempt.data)
     ELSE Throw(v2ParsingAttempt.error)

(* parseToV2 that throws the error of the last attempt *)
parseToV2_V1Error(data) ==
  LET v2ParsingAttempt == SafeParse(v2, data)
      v1ParsingAttempt == SafeParse(v1, data)
  IN IF v2ParsingAttempt.success THEN Return(v2ParsingAttempt.data)
     ELSE IF v1ParsingAttempt.success THEN Return(v1ToV2(v1ParsingAttempt.data))
     ELSE Throw(v1ParsingAttempt.error)

parseToV2(data) ==
  LET v2ParsingAttempt == SafeParse(v2, data)
      v1ParsingAttempt == SafeParse(v1, data)
  IN IF v2ParsingAttempt.success THEN Return(v2ParsingAttempt.data)
     ELSE IF v1ParsingAttempt.success THEN Return(v1ToV2(v1ParsingAttempt.data))
     ELSE Throw(v2ParsingAttempt.error)

(* safeParseToV2 that hands out the V1 attempt without upgrading it *)
safeParseToV2_NoUpgrade(data) ==
  LET v2ParsingAttempt == SafeParse(v2, data)
      v1ParsingAttempt == SafeParse(v1, data)
  IN IF v2ParsingAttempt.success THEN v2ParsingAttempt
     ELSE IF v1ParsingAttempt.success THEN v1ParsingAttempt
     ELSE v2ParsingAttempt

safeParseToV2(data) ==
  LET v2ParsingAttempt == SafeParse(v2, data)
      v1ParsingAttempt == SafeParse(v1, data)
  IN IF v2ParsingAttempt.success THEN v2ParsingAttempt
     ELSE IF v1ParsingAttempt.success THEN SafeParse(v2, v1ToV2(v1ParsingAttempt.data))
     ELSE v2ParsingAttempt

(* backfillV2 with ...v2Card written after the six fields *)
backfillV2_CardLast(v2Card) ==
  Obj(v2Card.v @@ [key \in Range(V1Fields) |-> Get(Get(v2Card, "data"), key)])

(* backfillV2 that reads the six fields off the card, not off its data *)
backfillV2_FromCard(v2Card) ==
  Obj([key \in Range(V1Fields) |-> Get(v2Card, key)] @@ v2Card.v)

(* { ...v2Card, name: v2Card.data.name, ... } *)
backfillV2(v2Card) ==
  Obj([key \in Range(V1Fields) |-> Get(Get(v2Card, "data"), key)] @@ v2Card.v)

obsolescenceNotice == "This is a V2 Character Card. Please update your frontend."

(* backfillV2WithObsolescenceNotice with ...v2Card written after the six fields *)
backfillV2WithObsolescenceNotice_CardLast(v2Card) ==
  Obj(v2Card.v @@ [key \in Range(V1Fields) |-> Str(obsolescenceNotice)])

backfillV2WithObsolescenceNotice(v2Card) ==
  Obj([key \in Range(V1Fields) |-> Str(obsolescenceNotice)] @@ v2Card.v)

----------------------------------------------------------------------------
(* the values a caller passes in.  The cards of src/src/__tests__ are the  *)
(* base documents; each family varies one part of a base document.         *)

MaxStr == 2

MaxEntries == 1

MaxDepth == 4

StrPool == <<"", "Mary", "x", "y">>

Strs == {StrPool[i] : i \in 1..MaxStr}

v1Card ==
  Obj([name |-> Str("John"),
       description |-> Str("{{char}} is a man."),
       personality |-> Str("cruel"),
       scenario |-> Str("{{char}} hates {{user}}"),
       first_mes |-> Str("Hi!"),
       mes_example |-> Str("")])

(* valid V1 cards: the test card, and the test card with one field changed *)
V1Cards ==
  {v1Card} \cup {With(v1Card, V1Fields[i], Str(s)) : i \in 1..Len(V1Fields), s \in Strs}

bookEntry ==
  Obj([keys |-> Arr(<<Str("king")>>),
       content |-> Str("king=old"),
       extensions |-> EmptyObj,
       enabled |-> Bool(TRUE),
       insertion_order |-> Num(1)])

fullEntry ==
  Obj([case_sensitive |-> Bool(FALSE),
       name |-> Str("King"),
       priority |-> Num(10),
       id |-> Num(0),
       comment |-> Str(""),
       selective |-> Bool(TRUE),
       secondary_keys |-> Arr(<<Str("queen"), Str("heir")>>),
       constant |-> Bool(FALSE),
       position |-> Str("after_char")] @@ bookEntry.v)

Entries ==
  {bookEntry, fullEntry,
   With(bookEntry, "position", Str("before_char")),
   With(bookEntry, "name", Undefined),
   With(bookEntry, "extensions", Obj([depth |-> Num(4), tags |-> Arr(<<Str("a")>>)])),
   With(bookEntry, "extra", Num(7))}

BadEntries ==
  {With(bookEntry, "position", Str("middle")),
   With(bookEntry, "enabled", Str("true")),
   With(fullEntry, "secondary_keys", Arr(<<Str("queen"), Num(1)>>)),
   Without(bookEntry, "keys"),
   Without(bookEntry, "extensions")}

(* the lists of at most n elements of S *)
RECURSIVE Lists(_, _)
Lists(S, n) ==
  IF n = 0 THEN {<<>>}
  ELSE LET shorter == Lists(S, n - 1)
       IN shorter \cup {Append(l, e) : l \in {m \in shorter : Len(m) = n - 1}, e \in S}

BookOf(es) == Obj([entries |-> Arr(es), extensions |-> EmptyObj])

Books ==
  {BookOf(es) : es \in Lists(Entries, MaxEntries)}
  \cup {Obj([name |-> Str("Lore"), description |-> Str(""), scan_depth |-> Num(2),
             token_budget |-> Num(100), recursive_scanning |-> Bool(FALSE)]
            @@ BookOf(<<bookEntry, fullEntry>>).v),
        With(BookOf(<<bookEntry>>), "extra", Num(7)),
        With(BookOf(<<>>), "extensions", Obj([vendor |-> Obj([x |-> Null])]))}

BadBooks ==
  {BookOf(<<e>>) : e \in BadEntries}
  \cup {Without(BookOf(<<>>), "entries"),
        With(BookOf(<<bookEntry>>), "scan_depth", Str("2")),
        With(BookOf(<<>>), "extensions", Arr(<<>>))}

(* the V2-only fields of the test card v2Card *)
v2CardOnly ==
  [creator_notes |-> Str("My first card."),
   system_prompt |-> Str(""),
   post_history_instructions |-> Str("Your message must start with the word \"Sweetie\"."),
   alternate_greetings |-> Arr(<<Str("Heeeey!")>>),
   character_book |-> Undefined,
   tags |-> Arr(<<Str("female"), Str("oc")>>),
   creator |-> Str("darkpriest"),
   character_version |-> Str(""),
   extensions |-> EmptyObj]

Card(version, data) ==
  Obj([spec |-> Str("chara_card_v2"), spec_version |-> Str(version), data |-> data])

v2Card == Card("2.0", Obj(v2CardOnly @@ With(v1Card, "name", Str("Mary")).v))

v2Data0 == Get(v2Card, "data")

(* valid data objects: every V1 card with the test card's V2-only fields,  *)
(* and the test data with one V2-only field changed                        *)
V2Datas ==
  {Obj(v2CardOnly @@ c.v) : c \in V1Cards}
  \cup {Obj(V2Defaults @@ v1Card.v), Without(v2Data0, "character_book")}
  \cup {With(v2Data0, "character_book", b) : b \in Books}
  \cup {With(v2Data0, f, Str(s)) :
          f \in {"creator_notes", "system_prompt", "post_history_instructions",
                 "creator", "character_version"}, s \in Strs}
  \cup {With(v2Data0, "alternate_greetings", Arr(<<>>)),
        With(v2Data0, "tags", Arr(<<>>)),
        With(v2Data0, "extensions", Obj([fav |-> Bool(TRUE), nested |-> Obj([n |-> Num(1)])])),
        With(v2Data0, "extra", Num(7))}

BadDatas ==
  {Without(v2Data0, V2OnlyFields[i]) : i \in (1..Len(V2OnlyFields)) \ {5}}
  \cup {Without(v2Data0, V1Fields[i]) : i \in 1..Len(V1Fields)}
  \cup {With(v2Data0, "character_book", b) : b \in BadBooks}
  \cup {v1Card, EmptyObj, Str("data"), Null,
        With(v2Data0, "tags", Arr(<<Num(1)>>)),
        With(v2Data0, "tags", Str("oc")),
        With(v2Data0, "extensions", Null),
        With(v2Data0, "name", Num(1))}

V2Cards ==
  {Card("2.0", d) : d \in V2Datas}
  \cup {Card(s, v2Data0) : s \in Strs}
  \cup {With(v2Card, "extra", Num(7)), With(v2Card, "name", Num(1))}

(* V2 cards that carry the six V1 fields at the top level: copies of the   *)
(* data's fields, or fields of their own                                   *)
BackfilledCards ==
  {Obj(c.v @@ v2Card.v) : c \in V1Cards}
  \cup {Obj([key \in Range(V1Fields) |-> Get(Get(c, "data"), key)] @@ c.v) :
          c \in {Card("2.0", With(v2Data0, "character_book", BookOf(<<fullEntry>>))),
                 With(v2Card, "extra", Num(7))}}

(* a card with another spec, and with none *)
Respec(c) ==
  {With(c, "spec", x) : x \in {Str("x"), Str("chara_card_v1"), Str(""), Num(2), Null}}
  \cup {Without(c, "spec")}

BadCards ==
  UNION {Respec(c) : c \in {v2Card, Card("2.0", Obj(V2Defaults @@ v1Card.v))}}
  \cup {Card("2.0", d) : d \in BadDatas}
  \cup {Without(v2Card, "spec_version"), Without(v2Card, "data"),
        With(v2Card, "spec_version", Num(2))}
  \cup {Without(v1Card, V1Fields[i]) : i \in 1..Len(V1Fields)}
  \cup {With(v1Card, V1Fields[i], x) : i \in 1..Len(V1Fields), x \in {Num(1), Null}}
  \cup {EmptyObj, Str("card"), Num(1), Bool(TRUE), Null, Undefined, Arr(<<>>), Arr(<<v1Card>>)}

(* cards with the V1 fields at the top level and a V2 part v2 rejects *)
BadBackfilledCards ==
  UNION {Respec(c) : c \in {Obj(v1Card.v @@ v2Card.v), backfillV2(v2Card)}}
  \cup {Obj(v1Card.v @@ Card("2.0", d).v) : d \in {v1Card, Without(v2Data0, "tags")}}

(* V1 cards that carry more than the six fields *)
WiderV1Cards ==
  {With(c, "extra", Num(7)) : c \in V1Cards}
  \cup {With(v1Card, "tags", Arr(<<Str("oc")>>)),
        With(v1Card, "creator_notes", Str("mine")),
        With(v1Card, "character_book", BookOf(<<bookEntry>>))}

Inputs ==
  V1Cards \cup WiderV1Cards
  \cup V2Cards \cup BackfilledCards \cup BadCards \cup BadBackfilledCards
  \cup Entries \cup BadEntries \cup Books \cup BadBooks

----------------------------------------------------------------------------
(* the state machine: a caller holds a value (input), calls one function   *)
(* of the library on it (op, result), and may pass what the call produced  *)
(* to the next call.                                                       *)

NoResult == [kind |-> "none", value |-> Undefined, error |-> <<>>]

Max(S) == IF S = {} THEN 0 ELSE CHOOSE n \in S : \A m \in S : m <= n

(* how deep objects nest in a value *)
RECURSIVE Depth(_)
Depth(x) ==
  CASE x.t = "object" -> 1 + Max({Depth(x.v[key]) : key \in DOMAIN x.v})
    [] x.t = "array" -> Max({Depth(x.v[i]) : i \in 1..Len(x.v)})
    [] OTHER -> 0

Helpers == {"parseToV2", "v1ToV2", "backfillV2", "backfillV2WithObsolescenceNotice"}

Validators == {"safeParseToV2", "v1", "v2", "entry", "book", "backfilledV2"}

Init ==
  /\ input \in Inputs
  /\ op = "none"
  /\ result = NoResult

Call(name, outcome) ==
  /\ op = "none"
  /\ op' = name
  /\ result' = outcome
  /\ UNCHANGED input

CallParseToV2 == Call("parseToV2", parseToV2(input))

CallSafeParseToV2 == Call("safeParseToV2", Return(safeParseToV2(input)))

(* v1ToV2 takes a V1: a value the v1 validator accepts *)
CallV1ToV2 ==
  /\ Accepts(v1, input)
  /\ Call("v1ToV2", Return(v1ToV2(input)))

(* the backfill functions take a V2: a value the v2 validator accepts *)
CallBackfillV2 ==
  /\ Accepts(v2, input)
  /\ Call("backfillV2", Return(backfillV2(input)))

CallBackfillV2WithObsolescenceNotice ==
  /\ Accepts(v2, input)
  /\ Call("backfillV2WithObsolescenceNotice", Return(backfillV2WithObsolescenceNotice(input)))

CallV1 == Call("v1", Return(SafeParse(v1, input)))

CallV2 == Call("v2", Return(SafeParse(v2, input)))

CallEntry == Call("entry", Return(SafeParse(entry, input)))

CallBook == Call("book", Return(SafeParse(book, input)))

CallBackfilledV2 == Call("backfilledV2", Return(SafeParse(backfilledV2, input)))

(* the value the last call produced, when it produced one *)
Produced ==
  IF op \in Helpers /\ result.kind = "return" THEN result.value
  ELSE IF op \in Validators /\ result.value.success THEN result.value.data
  ELSE Undefined

(* the caller passes the produced value to the next call *)
Feed ==
  /\ Produced # Undefined
  /\ Depth(Produced) <= MaxDepth
  /\ input' = Produced
  /\ op' = "none"
  /\ result' = NoResult

(* the caller drops the outcome and keeps the value *)
Discard ==
  /\ op # "none"
  /\ op' = "none"
  /\ result' = NoResult
  /\ UNCHANGED input

Next ==
  \/ CallParseToV2
  \/ CallSafeParseToV2
  \/ CallV1ToV2
  \/ CallBackfillV2
  \/ CallBackfillV2WithObsolescenceNotice
  \/ CallV1
  \/ CallV2
  \/ CallEntry
  \/ CallBook
  \/ CallBackfilledV2
  \/ Feed
  \/ Discard

Spec == Init /\ [][Next]_vars

----------------------------------------------------------------------------
(* structural equality, as toEqual of the tests decides it: a key whose    *)
(* value is undefined counts as an absent key                              *)

RECURSIVE Defined(_)
Defined(x) ==
  CASE x.t = "object" ->
         Obj([key \in {k \in DOMAIN x.v : x.v[k] # Undefined} |-> Defined(x.v[key])])
    [] x.t = "array" -> Arr([i \in 1..Len(x.v) |-> Defined(x.v[i])])
    [] OTHER -> x

StructEq(x, y) == Defined(x) = Defined(y)

(* the keys each object of a card may hold according to the typings *)
CardKeys == {"spec", "spec_version", "data"}

DataKeys == Range(V1Fields) \cup Range(V2OnlyFields)

Restrict(x, keys) == Obj([key \in (DOMAIN x.v) \cap keys |-> x.v[key]])

DeclaredEntry(e) == Restrict(e, Range(entry.keys))

DeclaredBook(b) ==
  LET es == Get(b, "entries").v
  IN With(Restrict(b, Range(book.keys)), "entries",
          Arr([i \in 1..Len(es) |-> DeclaredEntry(es[i])]))

DeclaredData(d) ==
  IF Get(d, "character_book").t = "object"
  THEN With(Restrict(d, DataKeys), "character_book", DeclaredBook(Get(d, "character_book")))
  ELSE Restrict(d, DataKeys)

(* a card the v2 validator accepts, without the fields no typing declares *)
DeclaredCard(c) == With(Restrict(c, CardKeys), "data", DeclaredData(Get(c, "data")))

(* the dual parsers were called and the call is over *)
Parsed == op = "parseToV2"

SafeParsed == op = "safeParseToV2"

----------------------------------------------------------------------------
(* C1, as claimed: for every document d the v2 validator accepts, with or  *)
(* without unknown extra fields, parseToV2(d) is structurally equal to d   *)
(* and safeParseToV2(d) is a success whose data is structurally equal to d *)
C1_RoundTripAsClaimed ==
  Accepts(v2, input) =>
    /\ Parsed => result.kind = "return" /\ StructEq(result.value, input)
    /\ SafeParsed => result.value.success /\ StructEq(result.value.data, input)

(* C1, amended: for every document d the v2 validator accepts, parseToV2(d) *)
(* and the data of the success safeParseToV2(d) are structurally equal to  *)
(* d without its undeclared fields (those of the card, of data, of the     *)
(* character book and of its entries), hence to d when d has none          *)
C1_RoundTrip ==
  Accepts(v2, input) =>
    /\ Parsed =>
         /\ result.kind = "return"
         /\ StructEq(result.value, DeclaredCard(input))
         /\ DeclaredCard(input) = input => StructEq(result.value, input)
    /\ SafeParsed =>
         /\ result.value.success
         /\ StructEq(result.value.data, DeclaredCard(input))
         /\ DeclaredCard(input) = input => StructEq(result.value.data, input)

(* a backfilled card went through parseToV2 and lost its top-level fields *)
C1_Witness ==
  /\ Parsed
  /\ Accepts(v2, input)
  /\ HasKey(input, "name")
  /\ result.kind = "return"
  /\ ~HasKey(result.value, "name")

----------------------------------------------------------------------------
(* what v1ToV2 puts around and beside the six V1 fields *)
UpgradeEnvelope(r) ==
  /\ DOMAIN r.v = CardKeys
  /\ Get(r, "spec") = Str("chara_card_v2")
  /\ Get(r, "spec_version") = Str("2.0")
  /\ Get(r, "data").t = "object"

UpgradeDefaults(data) ==
  /\ \A f \in {"creator_notes", "system_prompt", "post_history_instructions",
               "creator", "character_version"} : Get(data, f) = Str("")
  /\ \A f \in {"alternate_greetings", "tags"} : Get(data, f) = Arr(<<>>)
  /\ Get(data, "extensions") = EmptyObj
  /\ Get(data, "character_book") = Undefined

SameV1Fields(data, d) ==
  \A i \in 1..Len(V1Fields) : Get(data, V1Fields[i]) = Get(d, V1Fields[i])

(* C2, as claimed: for every valid V1 document d, v1ToV2(d) returns a      *)
(* document with spec 'chara_card_v2', spec_version '2.0', the six fields  *)
(* of d in data, the V2-only fields at their defaults, character_book      *)
(* unset, and no other field in data                                       *)
C2_UpgradeAsClaimed ==
  op = "v1ToV2" =>
    /\ result.kind = "return"
    /\ UpgradeEnvelope(result.value)
    /\ SameV1Fields(Get(result.value, "data"), input)
    /\ UpgradeDefaults(Get(result.value, "data"))
    /\ DOMAIN Get(result.value, "data").v \subseteq DataKeys

(* C2, amended: as claimed, except that data also holds every other field  *)
(* of d that is not named like a V2-only field, with d's value; data holds *)
(* no other field when d has exactly the six fields, which is the case     *)
(* when the dual parsers call v1ToV2 on the v1 validator's output          *)
C2_Upgrade ==
  /\ op = "v1ToV2" =>
       /\ result.kind = "return"
       /\ UpgradeEnvelope(result.value)
       /\ SameV1Fields(Get(result.value, "data"), input)
       /\ UpgradeDefaults(Get(result.value, "data"))
       /\ DOMAIN Get(result.value, "data").v = DataKeys \cup DOMAIN input.v
       /\ \A key \in (DOMAIN input.v) \ DataKeys :
            Get(Get(result.value, "data"), key) = Get(input, key)
  /\ (Parsed /\ Accepts(v1, input) /\ ~Accepts(v2, input)) =>
       /\ result.kind = "return"
       /\ UpgradeEnvelope(result.value)
       /\ SameV1Fields(Get(result.value, "data"), input)
       /\ UpgradeDefaults(Get(result.value, "data"))
       /\ DOMAIN Get(result.value, "data").v = DataKeys

(* v1ToV2 on a V1 card that carries a field named tags and a field of no   *)
(* typing: the default replaces the one, the other is copied into data     *)
C2_Witness ==
  /\ op = "v1ToV2"
  /\ \/ HasKey(input, "tags")
     \/ HasKey(input, "extra")
  /\ \/ Get(Get(result.value, "data"), "tags") # Get(input, "tags")
     \/ HasKey(Get(result.value, "data"), "extra")

----------------------------------------------------------------------------
(* C3: an input the v1 validator or the v2 validator accepts makes         *)
(* parseToV2 return and safeParseToV2 succeed; an input neither accepts,   *)
(* the empty object for one, makes parseToV2 raise and safeParseToV2 fail  *)
C3_DualParse ==
  /\ Parsed =>
       /\ (Accepts(v1, input) \/ Accepts(v2, input)) => result.kind = "return"
       /\ (~Accepts(v1, input) /\ ~Accepts(v2, input)) => result.kind = "throw"
       /\ input = EmptyObj => result.kind = "throw"
  /\ SafeParsed =>
       /\ (Accepts(v1, input) \/ Accepts(v2, input)) => result.value.success
       /\ (~Accepts(v1, input) /\ ~Accepts(v2, input)) => ~result.value.success
       /\ input = EmptyObj => ~result.value.success

(* safeParseToV2 succeeded on a V1 card, by the fallback *)
C3_Witness ==
  /\ SafeParsed
  /\ Accepts(v1, input)
  /\ ~Accepts(v2, input)
  /\ result.value.success

----------------------------------------------------------------------------
(* the input is a card the v2 validator accepts, but for its spec *)
Respecced ==
  /\ HasKey(input, "spec")
  /\ Get(input, "spec") # Str("chara_card_v2")
  /\ Accepts(v2, With(input, "spec", Str("chara_card_v2")))

(* the six top-level fields of a card, as the v1 validator returns them *)
TopLevelV1(c) == Restrict(c, Range(V1Fields))

(* C4, as claimed: a document equal to one the v2 validator accepts except *)
(* that spec is another value is rejected by the v2 validator, makes       *)
(* parseToV2 raise and makes safeParseToV2 fail                            *)
C4_DiscriminantAsClaimed ==
  Respecced =>
    /\ op = "v2" => ~result.value.success
    /\ Parsed => result.kind = "throw"
    /\ SafeParsed => ~result.value.success

(* C4, amended: such a document is rejected by the v2 validator; it makes  *)
(* parseToV2 raise and safeParseToV2 fail unless it carries the six        *)
(* top-level V1 fields (the v1 validator accepts it), and then both return *)
(* the upgrade of those six fields: spec is never coerced, the document's  *)
(* own data is never returned                                              *)
C4_Discriminant ==
  Respecced =>
    /\ op = "v2" => ~result.value.success
    /\ Parsed =>
         IF Accepts(v1, input)
         THEN result.kind = "return" /\ result.value = v1ToV2(TopLevelV1(input))
         ELSE result.kind = "throw"
    /\ SafeParsed =>
         IF Accepts(v1, input)
         THEN result.value.success /\ result.value.data = v1ToV2(TopLevelV1(input))
         ELSE ~result.value.success

(* parseToV2 returned on a backfilled card whose spec is not the literal *)
C4_Witness ==
  /\ Parsed
  /\ Respecced
  /\ Accepts(v1, input)
  /\ result.kind = "return"
  /\ Get(Get(result.value, "data"), "name") # Get(Get(input, "data"), "name")

----------------------------------------------------------------------------
(* the envelope of a card is as in another *)
SameEnvelope(r, d) ==
  /\ Get(r, "data") = Get(d, "data")
  /\ Get(r, "spec") = Get(d, "spec")
  /\ Get(r, "spec_version") = Get(d, "spec_version")

(* C5: for every valid V2 document d, r = backfillV2(d) has r.X = d.data.X *)
(* for each of the six V1 field names X, r.data = d.data, r.spec = d.spec  *)
(* and r.spec_version = d.spec_version, hence r.X = r.data.X               *)
C5_BackfillCopy ==
  op = "backfillV2" =>
    /\ result.kind = "return"
    /\ \A i \in 1..Len(V1Fields) :
         /\ HasKey(result.value, V1Fields[i])
         /\ Get(result.value, V1Fields[i]) = Get(Get(input, "data"), V1Fields[i])
         /\ Get(result.value, V1Fields[i]) = Get(Get(result.value, "data"), V1Fields[i])
    /\ SameEnvelope(result.value, input)

(* backfillV2 on a card whose top-level name was not the name of its data *)
C5_Witness ==
  /\ op = "backfillV2"
  /\ HasKey(input, "name")
  /\ Get(input, "name") # Get(Get(input, "data"), "name")
  /\ Get(result.value, "name") = Get(Get(input, "data"), "name")

----------------------------------------------------------------------------
(* C6: for every valid V2 document d, with or without top-level V1 fields, *)
(* r = backfillV2WithObsolescenceNotice(d) has the six top-level V1 fields *)
(* equal to the notice, r.data = d.data, r.spec = d.spec and               *)
(* r.spec_version = d.spec_version                                         *)
C6_ObsolescenceOverwrite ==
  op = "backfillV2WithObsolescenceNotice" =>
    /\ result.kind = "return"
    /\ \A i \in 1..Len(V1Fields) :
         Get(result.value, V1Fields[i]) =
           Str("This is a V2 Character Card. Please update your frontend.")
    /\ SameEnvelope(result.value, input)

(* the notice replaced top-level fields the card already carried *)
C6_Witness ==
  /\ op = "backfillV2WithObsolescenceNotice"
  /\ HasKey(input, "name")
  /\ Get(input, "name") # Str(obsolescenceNotice)
  /\ Get(result.value, "name") = Str(obsolescenceNotice)
  /\ Get(Get(result.value, "data"), "name") # Str(obsolescenceNotice)

----------------------------------------------------------------------------
(* C7, as claimed: for every input the v2 validator accepts, also one the  *)
(* v1 validator accepts too, parseToV2 and safeParseToV2 return the result *)
(* of V2 validation, the returned data equals the input's data, and the    *)
(* result is never the document v1ToV2 builds from the top-level fields    *)
C7_V2PrecedenceAsClaimed ==
  Accepts(v2, input) =>
    /\ Parsed =>
         /\ result.kind = "return"
         /\ result.value = SafeParse(v2, input).data
         /\ StructEq(Get(result.value, "data"), Get(input, "data"))
         /\ Accepts(v1, input) => result.value # v1ToV2(SafeParse(v1, input).data)
    /\ SafeParsed =>
         /\ result.value.success
         /\ result.value.data = SafeParse(v2, input).data
         /\ StructEq(Get(result.value.data, "data"), Get(input, "data"))
         /\ Accepts(v1, input) => result.value.data # v1ToV2(SafeParse(v1, input).data)

(* C7, amended: for every input the v2 validator accepts, also one the v1  *)
(* validator accepts too, parseToV2 and safeParseToV2 return the result of *)
(* V2 validation: the returned data is the input's data without its        *)
(* undeclared fields, so each of the six fields in it is the one of the    *)
(* input's data and not the top-level one                                  *)
C7_V2Precedence ==
  Accepts(v2, input) =>
    /\ Parsed =>
         /\ result.kind = "return"
         /\ result.value = SafeParse(v2, input).data
         /\ StructEq(Get(result.value, "data"), DeclaredData(Get(input, "data")))
         /\ SameV1Fields(Get(result.value, "data"), Get(input, "data"))
    /\ SafeParsed =>
         /\ result.value.success
         /\ result.value.data = SafeParse(v2, input).data
         /\ StructEq(Get(result.value.data, "data"), DeclaredData(Get(input, "data")))
         /\ SameV1Fields(Get(result.value.data, "data"), Get(input, "data"))

(* parseToV2 on a card both validators accept, whose top-level name is not *)
(* the name in its data                                                    *)
C7_Witness ==
  /\ Parsed
  /\ Accepts(v2, input)
  /\ Accepts(v1, input)
  /\ Get(input, "name") # Get(Get(input, "data"), "name")
  /\ Get(Get(result.value, "data"), "name") = Get(Get(input, "data"), "name")

----------------------------------------------------------------------------
(* the paths of the issues of an error *)
Paths(error) == [i \in 1..Len(error) |-> error[i].path]

(* C8: for every input both validators reject, the error parseToV2 raises  *)
(* and the error in the failure result of safeParseToV2 is the error of    *)
(* the V2 validation of the input, not the one of the V1 validation        *)
C8_PrimaryDiagnostic ==
  (~Accepts(v2, input) /\ ~Accepts(v1, input)) =>
    /\ Parsed =>
         /\ result.kind = "throw"
         /\ result.error = SafeParse(v2, input).error
         /\ SafeParse(v1, input).error # SafeParse(v2, input).error =>
              result.error # SafeParse(v1, input).error
         /\ input = EmptyObj =>
              Paths(result.error) = <<<<"spec">>, <<"spec_version">>, <<"data">>>>
    /\ SafeParsed =>
         /\ ~result.value.success
         /\ result.value.error = SafeParse(v2, input).error
         /\ SafeParse(v1, input).error # SafeParse(v2, input).error =>
              result.value.error # SafeParse(v1, input).error

(* parseToV2 raised on an input whose V1 and V2 errors differ *)
C8_Witness ==
  /\ Parsed
  /\ ~Accepts(v2, input)
  /\ ~Accepts(v1, input)
  /\ result.kind = "throw"
  /\ SafeParse(v1, input).error # SafeParse(v2, input).error
  /\ Len(result.error) > 0

----------------------------------------------------------------------------
(* C9, as claimed: every document the v1 validator accepts is rejected by  *)
(* the v2 validator and every document the v2 validator accepts is         *)
(* rejected by the v1 validator                                            *)
C9_CrossRejectionAsClaimed ==
  /\ (op = "v2" /\ Accepts(v1, input)) => ~result.value.success
  /\ (op = "v1" /\ Accepts(v2, input)) => ~result.value.success

(* C9, amended: a document the v1 validator accepts that lacks spec,       *)
(* spec_version or data is rejected by the v2 validator, and a document    *)
(* the v2 validator accepts that lacks one of the six top-level V1 fields  *)
(* is rejected by the v1 validator; both validators accept the documents   *)
(* that carry both (backfilled V2 cards), which are the documents the      *)
(* backfilledV2 validator accepts                                          *)
C9_CrossRejection ==
  /\ (op = "v2" /\ Accepts(v1, input) /\ \E key \in CardKeys : ~HasKey(input, key)) =>
       ~result.value.success
  /\ (op = "v1" /\ Accepts(v2, input) /\ \E key \in Range(V1Fields) : ~HasKey(input, key)) =>
       ~result.value.success
  /\ op = "v2" /\ input = v1Card => ~result.value.success
  /\ op = "v1" /\ input = v2Card => ~result.value.success
  /\ op = "backfilledV2" =>
       (result.value.success <=> (Accepts(v1, input) /\ Accepts(v2, input)))

(* the v1 validator accepted a card that the v2 validator accepts too *)
C9_Witness ==
  /\ op = "v1"
  /\ result.value.success
  /\ Accepts(v2, input)
  /\ Accepts(backfilledV2, input)

----------------------------------------------------------------------------
(* the validator a call went to *)
Called ==
  CASE op = "v1" -> v1
    [] op = "v2" -> v2
    [] op = "entry" -> entry
    [] op = "book" -> book

(* one of v1, v2, entry, book was called on an input with a field named    *)
(* extra, which no schema declares, and accepts the input without it       *)
ExtraFieldCase ==
  /\ op \in {"v1", "v2", "entry", "book"}
  /\ HasKey(input, "extra")
  /\ Accepts(Called, Without(input, "extra"))

(* C10, as claimed: for v1, v2, entry and book, an accepted input with one *)
(* more, unknown, top-level field is accepted and the value returned holds *)
(* the field with its value                                                *)
C10_ExtraFieldAsClaimed ==
  ExtraFieldCase =>
    /\ result.value.success
    /\ HasKey(result.value.data, "extra")
    /\ Get(result.value.data, "extra") = Get(input, "extra")

(* C10, amended: for v1, v2, entry and book, an accepted input with one    *)
(* more, unknown, top-level field is accepted, and the value returned is   *)
(* the one returned for the input without the field: the field is          *)
(* stripped, not rejected                                                  *)
C10_ExtraField ==
  ExtraFieldCase =>
    /\ result.value.success
    /\ ~HasKey(result.value.data, "extra")
    /\ result.value.data = SafeParse(Called, Without(input, "extra")).data

(* the book validator accepted a book with an unknown field *)
C10_Witness ==
  /\ ExtraFieldCase
  /\ op = "book"
  /\ result.value.success
  /\ ~HasKey(result.value.data, "extra")

----------------------------------------------------------------------------
(* C11: every document the backfilledV2 validator accepts is accepted by   *)
(* the v2 validator and by the v1 validator; the v2 validator accepts a    *)
(* document backfilledV2 rejects, the test card v2Card, which has no       *)
(* top-level V1 field; and the merge constrains spec, spec_version and     *)
(* data as v2 does: on a document with the six top-level fields the merge  *)
(* accepts what v2 accepts, returns v2's output for the three keys and     *)
(* reports v2's issues                                                     *)
C11_BackfilledStricter ==
  op = "backfilledV2" =>
    /\ result.value.success => (Accepts(v2, input) /\ Accepts(v1, input))
    /\ input = v2Card => (Accepts(v2, input) /\ ~result.value.success)
    /\ \A key \in CardKeys :
         key \in DOMAIN backfilledV2.shape /\ backfilledV2.shape[key] = v2.shape[key]
    /\ Accepts(v1, input) =>
         /\ result.value.success <=> Accepts(v2, input)
         /\ result.value.success =>
              Restrict(result.value.data, CardKeys) = SafeParse(v2, input).data
         /\ ~result.value.success => result.value.error = SafeParse(v2, input).error

(* backfilledV2 rejected a card that v2 accepts and that lacks a top-level *)
(* V1 field                                                                *)
C11_Witness ==
  /\ op = "backfilledV2"
  /\ ~result.value.success
  /\ Accepts(v2, input)
  /\ \E i \in 1..Len(V1Fields) : ~HasKey(input, V1Fields[i])

----------------------------------------------------------------------------
(* C12: for every valid V2 document d, backfillV2(d) and                   *)
(* backfillV2WithObsolescenceNotice(d) are accepted by the backfilledV2    *)
(* validator, by the v2 validator and by the v1 validator                  *)
C12_BackfillValid ==
  op \in {"backfillV2", "backfillV2WithObsolescenceNotice"} =>
    /\ result.kind = "return"
    /\ Accepts(backfilledV2, result.value)
    /\ Accepts(v2, result.value)
    /\ Accepts(v1, result.value)

(* backfillV2 on a card the v1 validator rejects made a card it accepts *)
C12_Witness ==
  /\ op = "backfillV2"
  /\ ~Accepts(v1, input)
  /\ Accepts(backfilledV2, result.value)

----------------------------------------------------------------------------
(* the outcome of a parseToV2 call and the result of a safeParseToV2 call  *)
(* on the same input say the same                                          *)
Agree(thrown, safe) ==
  /\ thrown.kind \in {"return", "throw"}
  /\ thrown.kind = "return" <=> safe.success
  /\ thrown.kind = "return" => StructEq(thrown.value, safe.data)
  /\ thrown.kind = "throw" => thrown.error = safe.error

(* C13: for every input x safeParseToV2(x) never raises; parseToV2(x)      *)
(* returns v exactly when safeParseToV2(x) is a success whose data is      *)
(* structurally equal to v, and raises e exactly when safeParseToV2(x) is  *)
(* a failure carrying e; also on the V1 path, where only safeParseToV2     *)
(* validates the upgraded document again                                   *)
C13_FormsAgree ==
  /\ Parsed => Agree(result, safeParseToV2(input))
  /\ SafeParsed =>
       /\ result.kind = "return"
       /\ Agree(parseToV2(input), result.value)

(* safeParseToV2 succeeded by the V1 path with the document parseToV2      *)
(* returns                                                                 *)
C13_Witness ==
  /\ SafeParsed
  /\ ~Accepts(v2, input)
  /\ Accepts(v1, input)
  /\ result.value.success
  /\ parseToV2(input).kind = "return"
  /\ result.value.data = parseToV2(input).value

----------------------------------------------------------------------------
(* C14: for every input on which parseToV2 returns a value v, by the V2    *)
(* path or by the V1 path, the v2 validator accepts v and parseToV2(v) is  *)
(* structurally equal to v                                                 *)
C14_OutputValid ==
  (Parsed /\ result.kind = "return") =>
    /\ Accepts(v2, result.value)
    /\ parseToV2(result.value).kind = "return"
    /\ StructEq(parseToV2(result.value).value, result.value)

(* parseToV2 upgraded a V1 card with more than six fields to a card that   *)
(* it returns as it is                                                     *)
C14_Witness ==
  /\ Parsed
  /\ result.kind = "return"
  /\ ~Accepts(v2, input)
  /\ DOMAIN input.v # Range(V1Fields)
  /\ parseToV2(result.value) = Return(result.value)

====
